---------------------------- MODULE Spec2Model ----------------------------
(***************************************************************************)
(* A model of the background-remover service.                              *)
(*                                                                         *)
(*   Spec         one HTTP background-removal request, served either by    *)
(*                main.py's Flask route remove_background_api or by        *)
(*                handlers.py's BackgroundRemovalHandler.handle_request    *)
(*                (which runs _process_image on the shared thread pool).   *)
(*   SpecShadow   one call of utils.py's ImageProcessor.add_shadow.        *)
(*   SpecReplace  one call of replace_background, main.py's or utils.py's. *)
(*   SpecFair     Spec with the threads' scheduling as weak fairness.      *)
(*   SpecPool     several concurrent requests and the pool's job queue.    *)
(*   SpecPixel    one pixel of an image through refine_edges and through   *)
(*                the compositing of replace_background.                   *)
(*   SpecTwo      two concurrent calls of handle_request, their temporary  *)
(*                files and their jobs in the pool.                        *)
(*   SpecSelenium threads that construct SeleniumImageGenerator and call   *)
(*                generate_image on it; SpecGenerate is one such thread.   *)
(*                                                                         *)
(* Images are abstracted to what the pipeline does to them (which          *)
(* transforms were applied, their size, whether they are transparent);     *)
(* the file system to the existence of the request's temporary file and    *)
(* directory (POSIX semantics: an open file can be unlinked).              *)
(***************************************************************************)
EXTENDS Integers, Sequences, FiniteSets, TLC

VARIABLES
    \* ---- the request pipeline (Spec) ----
    pc,             \* position of the request handler
    req,            \* the request's inputs
    stages,         \* pipeline stages the request's image went through, in order
    img,            \* the image being processed
    task,           \* state of the job submitted to the thread pool
    taskExc,        \* exception the job ended with ("" if none)
    response,       \* the HTTP response of the request
    pathBound,      \* the local temp_path has been assigned
    tempDir,        \* the request's temporary directory exists
    tempFile,       \* the request's temporary file exists
    otherBusy,      \* pool workers occupied by other requests' jobs
    overBudget,     \* the pipeline execution ran past the timeout budget
    futuresTimeoutIsBuiltin,
                    \* concurrent.futures.TimeoutError is the builtin
                    \* TimeoutError (Python >= 3.11) or a class of its own
    failedStage,    \* the pipeline stage that raised ("" if none did)
    \* ---- add_shadow (SpecShadow) ----
    sh,
    \* ---- replace_background (SpecReplace) ----
    rb,
    \* ---- concurrent requests and the thread pool (SpecPool) ----
    pool,
    \* ---- one pixel through refine_edges and replace_background (SpecPixel) ----
    px,
    \* ---- two concurrent calls of handle_request (SpecTwo) ----
    cc,
    \* ---- the SeleniumImageGenerator singleton and its threads (SpecSelenium) ----
    sel

pipeVars == <<pc, req, stages, img, task, taskExc, response, pathBound,
              tempDir, tempFile, otherBusy, overBudget,
              futuresTimeoutIsBuiltin, failedStage>>
vars == <<pipeVars, sh, rb, pool, px, cc, sel>>

-----------------------------------------------------------------------------
(* Program constants *)

\* handlers.py: executor = ThreadPoolExecutor(max_workers=4)
MaxWorkers == 4

\* utils.py: add_shadow's defaults offset=(20, 20), blur_radius=30,
\* shadow_color=(0, 0, 0, 120)
DefaultOffset == 20
DefaultBlurRadius == 30
DefaultShadowColor == <<0, 0, 0, 120>>

\* main.py 99-100: the cutoffs of refine_edges; main.py 40-41: those of the
\* definition of refine_edges that the one at line 78 replaces.
LowCutoff == 20
HighCutoff == 240
EarlierLowCutoff == 30
EarlierHighCutoff == 230

\* main.py 78-79: the default alpha_matting_erode_size of refine_edges;
\* main.py 179: the factor of int(5 * edge_refinement_intensity).
DefaultErodeSize == 10
ErodeFactor == 5

\* The largest value of an 8-bit channel.
ChannelMax == 255

-----------------------------------------------------------------------------
(* Bounds of the model *)

\* Image widths and heights run over 1..MaxDim.
MaxDim == 3
\* Explicit shadow offsets run over -MaxOffset..MaxOffset.
MaxOffset == 2
\* Background image widths and heights run over 1..MaxBgDim.
MaxBgDim == 4
\* Concurrent requests are numbered 1..NumRequests.
NumRequests == 5

-----------------------------------------------------------------------------
(* The request pipeline *)

Routes == {"api", "handler"}

\* What the request carries as its background: nothing, an empty
\* 'background' form field, a color string that parses, one that does not,
\* a decodable 'background_image' file, an undecodable one.
Backgrounds == {"none", "empty", "color", "badcolor", "image", "badimage"}

\* The 'edge_refinement_intensity' form field: absent, a number, not a number.
Intensities == {"absent", "2.0", "abc"}

Requests ==
    [route : Routes, hasImage : BOOLEAN, allowedExt : BOOLEAN,
     decodable : BOOLEAN, shadow : BOOLEAN, bg : Backgrounds,
     intensity : Intensities]

NoRequest ==
    [route |-> "none", hasImage |-> FALSE, allowedExt |-> FALSE,
     decodable |-> FALSE, shadow |-> FALSE, bg |-> "none",
     intensity |-> "absent"]

\* An image: which transforms it has been through.  refined counts the runs
\* of refine_edges over it; cutout says that the pixels outside the subject
\* are transparent (backgrounds put behind it are taken to be opaque).
NoImage ==
    [decoded |-> FALSE, removed |-> FALSE, refined |-> 0, shadow |-> FALSE,
     replaced |-> FALSE, cutout |-> FALSE, encoded |-> FALSE]

NoResponse == [kind |-> "none", status |-> 0, msg |-> ""]
ImageResponse == [kind |-> "image", status |-> 200, msg |-> ""]
ErrorResponse(status, msg) == [kind |-> "error", status |-> status, msg |-> msg]

PipeIdle ==
    /\ pc = "idle"
    /\ req = NoRequest
    /\ stages = <<>>
    /\ img = NoImage
    /\ task = "none"
    /\ taskExc = ""
    /\ response = NoResponse
    /\ pathBound = FALSE
    /\ tempDir = FALSE
    /\ tempFile = FALSE
    /\ otherBusy = 0
    /\ overBudget = FALSE
    /\ failedStage = ""


\* ---- exceptions and how handle_request maps them (handlers.py 51-56) ----

\* The class future.result(timeout=30) raises when the time is up.
FuturesTimeout ==
    IF futuresTimeoutIsBuiltin THEN "TimeoutError"
    ELSE "concurrent.futures.TimeoutError"

\* str(e)
ExcMessage(exc) ==
    CASE exc = "TimeoutError" -> ""
      [] exc = "concurrent.futures.TimeoutError" -> ""
      [] exc = "NameError" -> "name 'logging' is not defined"
      [] OTHER -> exc

\* except TimeoutError: 408; except Exception: 500 with str(e).  handlers.py
\* imports only ThreadPoolExecutor from concurrent.futures, so the name
\* TimeoutError in the except clause is the builtin.
HandlerErrorResponse(exc) ==
    IF exc = "TimeoutError"
    THEN ErrorResponse(408, "Processing timeout")
    ELSE ErrorResponse(500, ExcMessage(exc))

\* finally: try: os.remove(temp_path); os.rmdir(temp_dir); except: pass.
\* os.remove raises when temp_path is unbound or names no file, and then
\* os.rmdir is not reached.
RemoveSucceeds(bound, file) == bound /\ file
FileAfterCleanup(bound, file) == IF RemoveSucceeds(bound, file) THEN FALSE ELSE file
DirAfterCleanup(bound, file, dir) == IF RemoveSucceeds(bound, file) THEN FALSE ELSE dir

\* The handler returns `resp`; its finally clause runs on the way out.
HandlerReturn(resp, bound, file, dir) ==
    /\ response' = resp
    /\ pathBound' = bound
    /\ tempFile' = FileAfterCleanup(bound, file)
    /\ tempDir' = DirAfterCleanup(bound, file, dir)
    /\ pc' = "done"

\* ---- BackgroundRemovalHandler.handle_request ----

\* handlers.py 27-32: the two early returns.
HandlerValidate(r) ==
    /\ pc = "idle"
    /\ r.route = "handler"
    /\ req' = r
    /\ IF ~r.hasImage
       THEN /\ response' = ErrorResponse(400, "No image uploaded")
            /\ pc' = "done"
       ELSE IF ~r.allowedExt
       THEN /\ response' = ErrorResponse(400, "Invalid file format")
            /\ pc' = "done"
       ELSE /\ response' = response
            /\ pc' = "h_save"
    /\ UNCHANGED <<stages, img, task, taskExc, pathBound, tempDir, tempFile,
                   otherBusy, overBudget, futuresTimeoutIsBuiltin, failedStage, sh, rb, pool, px, cc, sel>>

\* What can happen while the upload is saved (handlers.py 36-38).
SaveOutcomes == {"mkdtemp_fails", "open_fails", "write_fails", "saved"}

\* handlers.py 34-41: mkdtemp, save, submit; a failure goes to
\* `except Exception` and the finally clause.
HandlerSave(o) ==
    /\ pc = "h_save"
    /\ CASE o = "mkdtemp_fails" ->
              \* nothing was created, temp_dir and temp_path are unbound
              /\ HandlerReturn(HandlerErrorResponse("OSError"), FALSE, FALSE, FALSE)
              /\ task' = task
         [] o = "open_fails" ->
              \* image_file.save could not create the file (a name too long
              \* for the file system, no space): the directory is there
              /\ HandlerReturn(HandlerErrorResponse("OSError"), TRUE, FALSE, TRUE)
              /\ task' = task
         [] o = "write_fails" ->
              \* the file was created, writing it failed
              /\ HandlerReturn(HandlerErrorResponse("OSError"), TRUE, TRUE, TRUE)
              /\ task' = task
         [] o = "saved" ->
              /\ pathBound' = TRUE
              /\ tempDir' = TRUE
              /\ tempFile' = TRUE
              /\ task' = "queued"
              /\ pc' = "h_wait"
              /\ response' = response
    /\ UNCHANGED <<req, stages, img, taskExc, otherBusy, overBudget,
                   futuresTimeoutIsBuiltin, failedStage, sh, rb, pool, px, cc, sel>>

\* The job occupies a pool worker; the job has not finished.  A job that
\* is "hung" is inside a transform that never returns.
TaskRunning == task \in {"opened", "removed", "hung"}
TaskPending == task \in {"queued", "opened", "removed", "hung"}

\* handlers.py 42-49: the job finished in time, its bytes are sent.
HandlerResult ==
    /\ pc = "h_wait"
    /\ task = "finished"
    /\ HandlerReturn(ImageResponse, pathBound, tempFile, tempDir)
    /\ UNCHANGED <<req, stages, img, task, taskExc, otherBusy, overBudget,
                   futuresTimeoutIsBuiltin, failedStage, sh, rb, pool, px, cc, sel>>

\* handlers.py 42, 54-56: future.result re-raises the job's exception.
HandlerTaskError ==
    /\ pc = "h_wait"
    /\ task = "failed"
    /\ HandlerReturn(HandlerErrorResponse(taskExc), pathBound, tempFile, tempDir)
    /\ UNCHANGED <<req, stages, img, task, taskExc, otherBusy, overBudget,
                   futuresTimeoutIsBuiltin, failedStage, sh, rb, pool, px, cc, sel>>

\* handlers.py 42, 51-56: 30 s pass and the job has not finished.  The job
\* is not cancelled: it stays queued or keeps running.
HandlerTimeout ==
    /\ pc = "h_wait"
    /\ TaskPending
    /\ overBudget' = TRUE
    /\ HandlerReturn(HandlerErrorResponse(FuturesTimeout), pathBound, tempFile, tempDir)
    /\ UNCHANGED <<req, stages, img, task, taskExc, otherBusy,
                   futuresTimeoutIsBuiltin, failedStage, sh, rb, pool, px, cc, sel>>

\* ---- the job: BackgroundRemovalHandler._process_image on a pool worker ----

\* handlers.py 66-74: a free worker takes the job; Image.open and convert.
TaskOpen ==
    /\ task = "queued"
    /\ otherBusy < MaxWorkers
    /\ IF ~tempFile
       THEN /\ task' = "failed"
            /\ taskExc' = "FileNotFoundError"
            /\ failedStage' = "RAW_IMAGE"
            /\ UNCHANGED <<img, stages>>
       ELSE IF ~req.decodable
       THEN /\ task' = "failed"
            /\ taskExc' = "UnidentifiedImageError"
            /\ failedStage' = "RAW_IMAGE"
            /\ UNCHANGED <<img, stages>>
       ELSE /\ task' = "opened"
            /\ taskExc' = taskExc
            /\ failedStage' = failedStage
            /\ img' = [NoImage EXCEPT !.decoded = TRUE]
            /\ stages' = <<"RAW_IMAGE">>
    /\ UNCHANGED <<pc, req, response, pathBound, tempDir, tempFile, otherBusy,
                   overBudget, futuresTimeoutIsBuiltin, sh, rb, pool, px, cc, sel>>

\* utils.py 9-27: ImageProcessor.remove_background_enhanced returns what the
\* segmentation model gave, decoded; refine_edges is not run.
UtilsRemoveBackgroundEnhanced(image) ==
    [image EXCEPT !.removed = TRUE, !.cutout = TRUE]

\* A stage that logs its failure and hands back the image it was given.
TaskRemoveBackgroundSwallowed(ok) ==
    /\ task = "opened"
    /\ task' = "removed"
    /\ taskExc' = taskExc
    /\ failedStage' = IF ok THEN failedStage ELSE "BACKGROUND_REMOVED"
    /\ img' = IF ok THEN UtilsRemoveBackgroundEnhanced(img) ELSE img
    /\ stages' = Append(stages, "BACKGROUND_REMOVED")
    /\ UNCHANGED <<pc, req, response, pathBound, tempDir, tempFile, otherBusy,
                   overBudget, futuresTimeoutIsBuiltin, sh, rb, pool, px, cc, sel>>

\* handlers.py 77 and utils.py 9-27.  When rembg raises, the except clause
\* of utils.py calls logging.error, and utils.py does not import logging:
\* the exception that leaves is a NameError.
TaskRemoveBackground(ok) ==
    /\ task = "opened"
    /\ IF ok
       THEN /\ img' = UtilsRemoveBackgroundEnhanced(img)
            /\ stages' = Append(stages, "BACKGROUND_REMOVED")
            /\ task' = "removed"
            /\ taskExc' = taskExc
            /\ failedStage' = failedStage
       ELSE /\ task' = "failed"
            /\ taskExc' = "NameError"
            /\ failedStage' = "BACKGROUND_REMOVED"
            /\ UNCHANGED <<img, stages>>
    /\ UNCHANGED <<pc, req, response, pathBound, tempDir, tempFile, otherBusy,
                   overBudget, futuresTimeoutIsBuiltin, sh, rb, pool, px, cc, sel>>

\* handlers.py 77: the transform of a pathological image never returns.
\* Nothing in the code interrupts a running job: future.result(timeout=30)
\* only stops waiting for it.
TaskHangs ==
    /\ task = "opened"
    /\ task' = "hung"
    /\ UNCHANGED <<pc, req, stages, img, taskExc, response, pathBound, tempDir,
                   tempFile, otherBusy, overBudget, futuresTimeoutIsBuiltin,
                   failedStage, sh, rb, pool, px, cc, sel>>

\* handlers.py 80-82: PNG bytes.
TaskEncode ==
    /\ task = "removed"
    /\ img' = [img EXCEPT !.encoded = TRUE]
    /\ stages' = Append(stages, "ENCODED_OUTPUT")
    /\ task' = "finished"
    /\ UNCHANGED <<pc, req, taskExc, response, pathBound, tempDir, tempFile,
                   otherBusy, overBudget, futuresTimeoutIsBuiltin, failedStage, sh, rb, pool, px, cc, sel>>

\* ---- the rest of the pool's load (handlers.py 15, 41, 118) ----

\* Another request's job takes a free worker.
OtherJobStart ==
    /\ otherBusy + (IF TaskRunning THEN 1 ELSE 0) < MaxWorkers
    /\ otherBusy' = otherBusy + 1
    /\ UNCHANGED <<pc, req, stages, img, task, taskExc, response, pathBound,
                   tempDir, tempFile, overBudget, futuresTimeoutIsBuiltin, failedStage, sh, rb, pool, px, cc, sel>>

\* Another request's job ends.
OtherJobEnd ==
    /\ otherBusy > 0
    /\ otherBusy' = otherBusy - 1
    /\ UNCHANGED <<pc, req, stages, img, task, taskExc, response, pathBound,
                   tempDir, tempFile, overBudget, futuresTimeoutIsBuiltin, failedStage, sh, rb, pool, px, cc, sel>>

\* ---- main.py: the Flask route remove_background_api ----

\* Flask's answer to an exception the view does not catch.
UnhandledError == ErrorResponse(500, "Internal Server Error")

\* main.py 78-107: refine_edges (the later definition is the one bound to
\* the name when the route runs).
RefineEdges(image) == [image EXCEPT !.refined = @ + 1]

\* main.py 109-128: remove_background_enhanced: rembg's remove, then
\* refine_edges.
MainRemoveBackgroundEnhanced(image) ==
    RefineEdges([image EXCEPT !.removed = TRUE, !.cutout = TRUE])

\* main.py 130-161: replace_background: refine_edges, then the foreground
\* composited over the background.
MainReplaceBackground(image) ==
    [RefineEdges(image) EXCEPT !.replaced = TRUE, !.cutout = FALSE]

\* float(request.form.get('edge_refinement_intensity', 1.0)) succeeds.
FloatParses(s) == s # "abc"

\* main.py 166-168.
ApiValidate(r) ==
    /\ pc = "idle"
    /\ r.route = "api"
    /\ req' = r
    /\ IF ~r.hasImage
       THEN /\ response' = ErrorResponse(400, "No image uploaded")
            /\ pc' = "done"
       ELSE /\ response' = response
            /\ pc' = "a_open"
    /\ UNCHANGED <<stages, img, task, taskExc, pathBound, tempDir, tempFile,
                   otherBusy, overBudget, futuresTimeoutIsBuiltin, failedStage, sh, rb, pool, px, cc, sel>>

\* main.py 171-175: Image.open, then the intensity; neither is guarded.
ApiOpen ==
    /\ pc = "a_open"
    /\ IF ~req.decodable \/ ~FloatParses(req.intensity)
       THEN /\ response' = UnhandledError
            /\ failedStage' = "RAW_IMAGE"
            /\ pc' = "done"
            /\ UNCHANGED <<img, stages>>
       ELSE /\ img' = [NoImage EXCEPT !.decoded = TRUE]
            /\ stages' = <<"RAW_IMAGE">>
            /\ pc' = "a_remove"
            /\ response' = response
            /\ failedStage' = failedStage
    /\ UNCHANGED <<req, task, taskExc, pathBound, tempDir, tempFile,
                   otherBusy, overBudget, futuresTimeoutIsBuiltin, sh, rb, pool, px, cc, sel>>

\* A route that goes on to the background without removing the old one.
ApiRemoveBackgroundSkipped(ok) ==
    /\ pc = "a_remove"
    /\ ok
    /\ pc' = "a_replace"
    /\ UNCHANGED <<req, stages, img, task, taskExc, response, pathBound,
                   tempDir, tempFile, otherBusy, overBudget,
                   futuresTimeoutIsBuiltin, failedStage, sh, rb, pool, px, cc, sel>>

\* main.py 177-179: remove_background_enhanced, then refine_edges once more.
ApiRemoveBackground(ok) ==
    /\ pc = "a_remove"
    /\ IF ok
       THEN /\ img' = RefineEdges(MainRemoveBackgroundEnhanced(img))
            /\ stages' = Append(stages, "BACKGROUND_REMOVED")
            /\ pc' = "a_replace"
            /\ response' = response
            /\ failedStage' = failedStage
       ELSE /\ response' = UnhandledError
            /\ failedStage' = "BACKGROUND_REMOVED"
            /\ pc' = "done"
            /\ UNCHANGED <<img, stages>>
    /\ UNCHANGED <<req, task, taskExc, pathBound, tempDir, tempFile,
                   otherBusy, overBudget, futuresTimeoutIsBuiltin, sh, rb, pool, px, cc, sel>>

\* main.py 181-195: a background image wins over a color; an empty color
\* field is falsy and counts as none.  A color string that does not parse
\* is replaced by white inside replace_background.
ApiReplaceBackground ==
    /\ pc = "a_replace"
    /\ CASE req.bg = "badimage" ->
              /\ response' = ErrorResponse(400, "Error processing background image")
              /\ failedStage' = "BACKGROUND_REPLACED"
              /\ pc' = "done"
              /\ UNCHANGED <<img, stages>>
         [] req.bg \in {"image", "color", "badcolor"} ->
              /\ img' = MainReplaceBackground(img)
              /\ stages' = Append(stages, "BACKGROUND_REPLACED")
              /\ pc' = "a_encode"
              /\ response' = response
              /\ failedStage' = failedStage
         [] req.bg \in {"none", "empty"} ->
              /\ pc' = "a_encode"
              /\ UNCHANGED <<img, stages, response, failedStage>>
    /\ UNCHANGED <<req, task, taskExc, pathBound, tempDir, tempFile,
                   otherBusy, overBudget, futuresTimeoutIsBuiltin, sh, rb, pool, px, cc, sel>>

\* main.py 197-202: PNG bytes, send_file.
ApiEncode ==
    /\ pc = "a_encode"
    /\ img' = [img EXCEPT !.encoded = TRUE]
    /\ stages' = Append(stages, "ENCODED_OUTPUT")
    /\ response' = ImageResponse
    /\ pc' = "done"
    /\ UNCHANGED <<req, task, taskExc, pathBound, tempDir, tempFile,
                   otherBusy, overBudget, futuresTimeoutIsBuiltin, failedStage, sh, rb, pool, px, cc, sel>>

\* The route runs the pipeline in the request's own thread, with no timer:
\* the budget can run out while it works and nothing notices.
ApiBudgetElapses ==
    /\ pc \in {"a_remove", "a_replace", "a_encode"}
    /\ ~overBudget
    /\ overBudget' = TRUE
    /\ UNCHANGED <<pc, req, stages, img, task, taskExc, response, pathBound,
                   tempDir, tempFile, otherBusy, futuresTimeoutIsBuiltin, failedStage, sh, rb, pool, px, cc, sel>>

\* ---- the specification of one request ----

ShadowIdle == sh = [pc |-> "unused"]
ReplaceIdle == rb = [pc |-> "unused"]
PoolIdle == pool = [pc |-> "unused"]
PixelIdle == px = [pc |-> "unused"]
TwoIdle == cc = [pc |-> "unused"]
SeleniumIdle == sel = [pc |-> "unused"]

Init ==
    /\ PipeIdle
    /\ futuresTimeoutIsBuiltin \in BOOLEAN
    /\ ShadowIdle
    /\ ReplaceIdle
    /\ PoolIdle
    /\ PixelIdle
    /\ TwoIdle
    /\ SeleniumIdle

Next ==
    \/ \E r \in Requests : HandlerValidate(r)
    \/ \E o \in SaveOutcomes : HandlerSave(o)
    \/ HandlerResult
    \/ HandlerTaskError
    \/ HandlerTimeout
    \/ TaskOpen
    \/ \E ok \in BOOLEAN : TaskRemoveBackground(ok)
    \/ TaskHangs
    \/ TaskEncode
    \/ OtherJobStart
    \/ OtherJobEnd
    \/ \E r \in Requests : ApiValidate(r)
    \/ ApiOpen
    \/ \E ok \in BOOLEAN : ApiRemoveBackground(ok)
    \/ ApiReplaceBackground
    \/ ApiEncode
    \/ ApiBudgetElapses

Spec == Init /\ [][Next]_vars

\* The request's thread and the pool's worker threads are scheduled: a step
\* of the handler or of the job that stays possible is taken.  Nothing is
\* assumed of the other requests' jobs, nor that a transform returns.
Fairness ==
    /\ WF_vars(\E o \in SaveOutcomes : HandlerSave(o))
    /\ WF_vars(HandlerResult)
    /\ WF_vars(HandlerTaskError)
    /\ WF_vars(HandlerTimeout)
    /\ WF_vars(TaskOpen)
    /\ WF_vars((\E ok \in BOOLEAN : TaskRemoveBackground(ok)) \/ TaskHangs)
    /\ WF_vars(TaskEncode)
    /\ WF_vars(OtherJobEnd)

SpecFair == Spec /\ Fairness

-----------------------------------------------------------------------------
(* Claims about the request pipeline, checked under Spec *)

Range(s) == {s[i] : i \in 1..Len(s)}

StageRank(st) ==
    CASE st = "RAW_IMAGE" -> 1
      [] st = "BACKGROUND_REMOVED" -> 2
      [] st = "SHADOW" -> 3
      [] st = "BACKGROUND_REPLACED" -> 4
      [] st = "ENCODED_OUTPUT" -> 5
      [] OTHER -> 0

\* s starts RAW_IMAGE, BACKGROUND_REMOVED, ends ENCODED_OUTPUT and never
\* goes back or repeats a stage.
LinearOrder(s) ==
    /\ Len(s) >= 3
    /\ s[1] = "RAW_IMAGE"
    /\ s[2] = "BACKGROUND_REMOVED"
    /\ s[Len(s)] = "ENCODED_OUTPUT"
    /\ \A i \in 1..(Len(s) - 1) : StageRank(s[i]) < StageRank(s[i + 1])

Succeeded == response.kind = "image"

\* C1: every request that ends with an image went through RAW_IMAGE,
\* BACKGROUND_REMOVED, then optionally SHADOW, then optionally
\* BACKGROUND_REPLACED, then ENCODED_OUTPUT, in that order: removal is never
\* skipped, no stage is repeated or taken out of order, encoding is last.
C1_StagesInLinearOrder == Succeeded => LinearOrder(stages)

\* A request that succeeded with one of the optional stages taken.
C1_Witness == Succeeded /\ "BACKGROUND_REPLACED" \in Range(stages)

\* C2: once the Background Remover has returned an image (the image is
\* marked removed), refine_edges has run over it at least once.
C2_RemoverAlwaysRefines == img.removed => img.refined >= 1

\* C3: a request that succeeds has had add_shadow applied if and only if it
\* asked for a shadow.
C3_ShadowIffRequested ==
    Succeeded => ((img.shadow /\ "SHADOW" \in Range(stages)) <=> req.shadow)

SuppliesBackground == req.bg \notin {"none", "empty"}

\* C4: a request that succeeds has had its background replaced if and only
\* if it supplied a background color or image; with neither, the output is
\* the background-removed image, its transparency kept.
C4_ReplacedIffSupplied ==
    Succeeded =>
        /\ img.replaced <=> SuppliesBackground
        /\ ~SuppliesBackground => (img.removed /\ img.cutout)

IsTimeoutError(resp) == resp.kind = "error" /\ resp.status = 408

\* C9: a request whose pipeline execution ran past the budget ends with a
\* timeout error and no image.
C9_OverBudgetEndsInTimeoutError ==
    (pc = "done" /\ overBudget) => IsTimeoutError(response)

\* C10: when handle_request has returned, whatever the outcome, neither the
\* request's temporary file nor its temporary directory exists.
C10_TempGoneAfterRequest ==
    (pc = "done" /\ req.route = "handler") => (~tempFile /\ ~tempDir)

\* A stage raised while its request's handler was still there to hear of it
\* (a job that fails after handle_request timed out fails unobserved).
StageFailedInTime ==
    failedStage # "" /\ ~(req.route = "handler" /\ overBudget)

C15_TimedOutWorkerIsFreed ==
    (req.route = "handler" /\ overBudget) ~> ~TaskRunning

\* The request's input is invalid: no image, an image of an unsupported
\* format (for handle_request an extension outside ALLOWED_EXTENSIONS, for
\* either route a file PIL cannot decode), or a background image file that
\* cannot be decoded.
InvalidInput(r) ==
    \/ ~r.hasImage
    \/ r.route = "handler" /\ ~r.allowedExt
    \/ ~r.decodable
    \/ r.bg = "badimage"

\* C13: a request with a missing, unsupported or undecodable image, or with
\* an undecodable background image file, ends with an error response that
\* carries a message, and with no image.
C13_InvalidInputEndsInError ==
    (pc = "done" /\ InvalidInput(req)) =>
        (response.kind = "error" /\ response.msg # "")

\* C22: in handle_request the temporary file is never deleted while the
\* job submitted for the request is still queued in the pool or running;
\* as long as the job has not finished, the file is there.
C22_TempFileOutlivesJob == TaskPending => tempFile

-----------------------------------------------------------------------------
(* ImageProcessor.add_shadow (utils.py 29-87) *)

Abs(x) == IF x < 0 THEN -x ELSE x
Max(a, b) == IF a >= b THEN a ELSE b
Min(a, b) == IF a <= b THEN a ELSE b

Offsets == (-MaxOffset..MaxOffset) \cup {DefaultOffset}
BlurRadii == {0, DefaultBlurRadius}

\* A canvas that drops the offset's sign handling.
CanvasSizeSigned(size, offset) == <<size[1] + offset[1], size[2] + offset[2]>>

\* utils.py 53-60: the size of the output image.
CanvasSize(size, offset) ==
    <<size[1] + Abs(offset[1]), size[2] + Abs(offset[2])>>

\* A shadow pasted at the offset as given.
ShadowPositionRaw(offset) == <<offset[1], offset[2]>>

\* utils.py 68-71: where the shadow is pasted.
ShadowPosition(offset) == <<Max(offset[1], 0), Max(offset[2], 0)>>

\* utils.py 76-79: where the image is pasted.
SubjectPosition(offset) == <<Max(-offset[1], 0), Max(-offset[2], 0)>>

\* Image.paste(im, (x, y), mask): the region <<x0, y0, x1, y1>> of the
\* canvas that is written, the part of im's box that lies on the canvas.
PasteBox(pos, size, canvas) ==
    <<Max(pos[1], 0), Max(pos[2], 0),
      Min(pos[1] + size[1], canvas[1]), Min(pos[2] + size[2], canvas[2])>>

ShadowCalls ==
    [pc : {"call"}, w : 1..MaxDim, h : 1..MaxDim, dx : Offsets, dy : Offsets,
     blur : BlurRadii, color : {DefaultShadowColor}, mode : {"RGB", "RGBA"},
     canvas : {<<0, 0>>}, shadowSize : {<<0, 0>>},
     shadowAt : {<<0, 0>>}, shadowBox : {<<0, 0, 0, 0>>},
     subjectAt : {<<0, 0>>}, subjectBox : {<<0, 0, 0, 0>>},
     out : {<<0, 0>>}, blurOf : {<<0, 0>>}, steps : {<<>>}]

\* utils.py 40-50: RGBA; the silhouette, image-sized, in the shadow's color
\* with the image's alpha.
ShadowSilhouette ==
    /\ sh.pc = "call"
    /\ sh' = [sh EXCEPT !.pc = "silhouette", !.mode = "RGBA",
                        !.shadowSize = <<sh.w, sh.h>>,
                        !.steps = Append(@, "silhouette")]
    /\ UNCHANGED <<pipeVars, rb, pool, px, cc, sel>>

\* utils.py 52-60: the transparent output canvas.
ShadowCanvas ==
    /\ sh.pc = "silhouette"
    /\ sh' = [sh EXCEPT !.pc = "canvas",
                        !.canvas = CanvasSize(<<sh.w, sh.h>>, <<sh.dx, sh.dy>>),
                        !.steps = Append(@, "canvas")]
    /\ UNCHANGED <<pipeVars, rb, pool, px, cc, sel>>

\* A blur run over the output canvas.
ShadowBlurCanvas ==
    /\ sh.pc = "canvas"
    /\ sh' = [sh EXCEPT !.pc = "blurred",
                        !.blurOf = sh.canvas,
                        !.steps = Append(@, "blur")]
    /\ UNCHANGED <<pipeVars, rb, pool, px, cc, sel>>

\* utils.py 62-63: shadow = shadow.filter(GaussianBlur(blur_radius)): the
\* image-sized silhouette is blurred, on its own, before it is pasted (a
\* filter keeps the size); blurOf is the size of the image that is blurred.
ShadowBlur ==
    /\ sh.pc = "canvas"
    /\ sh' = [sh EXCEPT !.pc = "blurred",
                        !.blurOf = sh.shadowSize,
                        !.steps = Append(@, "blur")]
    /\ UNCHANGED <<pipeVars, rb, pool, px, cc, sel>>

\* utils.py 65-73: the blurred silhouette is pasted, masked by itself.
ShadowPaste ==
    /\ sh.pc = "blurred"
    /\ sh' = [sh EXCEPT !.pc = "shadow_pasted",
                        !.shadowAt = ShadowPosition(<<sh.dx, sh.dy>>),
                        !.shadowBox = PasteBox(ShadowPosition(<<sh.dx, sh.dy>>),
                                               sh.shadowSize, sh.canvas),
                        !.steps = Append(@, "paste_shadow")]
    /\ UNCHANGED <<pipeVars, rb, pool, px, cc, sel>>

\* utils.py 74-83: the image is pasted, masked by itself; the canvas is
\* returned.
ShadowPasteImage ==
    /\ sh.pc = "shadow_pasted"
    /\ sh' = [sh EXCEPT !.pc = "done",
                        !.subjectAt = SubjectPosition(<<sh.dx, sh.dy>>),
                        !.subjectBox = PasteBox(SubjectPosition(<<sh.dx, sh.dy>>),
                                                <<sh.w, sh.h>>, sh.canvas),
                        !.out = sh.canvas,
                        !.steps = Append(@, "paste_image")]
    /\ UNCHANGED <<pipeVars, rb, pool, px, cc, sel>>

InitShadow ==
    /\ PipeIdle
    /\ futuresTimeoutIsBuiltin = TRUE
    /\ sh \in ShadowCalls
    /\ ReplaceIdle
    /\ PoolIdle
    /\ PixelIdle
    /\ TwoIdle
    /\ SeleniumIdle

NextShadow ==
    \/ ShadowSilhouette
    \/ ShadowCanvas
    \/ ShadowBlur
    \/ ShadowPaste
    \/ ShadowPasteImage

SpecShadow == InitShadow /\ [][NextShadow]_vars

(* Claims about add_shadow, checked under SpecShadow *)

ShadowDone == sh.pc = "done"

\* C5: add_shadow returns an image of size (w + |dx|, h + |dy|) for every
\* sign of dx and dy; (w, h) for offset (0, 0), (w + 20, h + 20) for (20, 20).
C5_ShadowOutputSize ==
    ShadowDone =>
        /\ sh.out[1] = sh.w + (IF sh.dx >= 0 THEN sh.dx ELSE 0 - sh.dx)
        /\ sh.out[2] = sh.h + (IF sh.dy >= 0 THEN sh.dy ELSE 0 - sh.dy)
        /\ (sh.dx = 0 /\ sh.dy = 0) => sh.out = <<sh.w, sh.h>>
        /\ (sh.dx = 20 /\ sh.dy = 20) => sh.out = <<sh.w + 20, sh.h + 20>>

\* add_shadow has returned for an offset of mixed signs.
C5_Witness == ShadowDone /\ sh.dx < 0 /\ sh.dy > 0

\* C6: the w-by-h shadow at (max(dx,0), max(dy,0)) and the w-by-h image at
\* (max(-dx,0), max(-dy,0)) are written whole, inside the canvas, and the
\* shadow lies at (dx, dy) from the image.
C6_NoClipping ==
    ShadowDone =>
        /\ sh.shadowSize = <<sh.w, sh.h>>
        /\ sh.shadowBox = <<sh.shadowAt[1], sh.shadowAt[2],
                            sh.shadowAt[1] + sh.w, sh.shadowAt[2] + sh.h>>
        /\ sh.subjectBox = <<sh.subjectAt[1], sh.subjectAt[2],
                             sh.subjectAt[1] + sh.w, sh.subjectAt[2] + sh.h>>
        /\ sh.shadowBox[1] >= 0 /\ sh.shadowBox[2] >= 0
        /\ sh.shadowBox[3] <= sh.out[1] /\ sh.shadowBox[4] <= sh.out[2]
        /\ sh.subjectBox[1] >= 0 /\ sh.subjectBox[2] >= 0
        /\ sh.subjectBox[3] <= sh.out[1] /\ sh.subjectBox[4] <= sh.out[2]
        /\ sh.shadowAt[1] - sh.subjectAt[1] = sh.dx
        /\ sh.shadowAt[2] - sh.subjectAt[2] = sh.dy

\* add_shadow has returned for an offset up and to the left.
C6_Witness == ShadowDone /\ sh.dx < 0 /\ sh.dy < 0

\* The place of step x in the sequence of steps s (0 if it was not taken).
StepAt(s, x) ==
    IF \E i \in 1..Len(s) : s[i] = x
    THEN CHOOSE i \in 1..Len(s) : s[i] = x
    ELSE 0

\* C14 as claimed: the silhouette is pasted on the enlarged canvas, then the
\* whole canvas is blurred, then the image is pasted last.
C14_BlurAfterPasteOverCanvas ==
    ShadowDone =>
        /\ 0 < StepAt(sh.steps, "paste_shadow")
        /\ StepAt(sh.steps, "paste_shadow") < StepAt(sh.steps, "blur")
        /\ StepAt(sh.steps, "blur") < StepAt(sh.steps, "paste_image")
        /\ sh.blurOf = sh.out
        /\ sh.shadowAt = <<Max(sh.dx, 0), Max(sh.dy, 0)>>
        /\ sh.subjectAt = <<Max(0 - sh.dx, 0), Max(0 - sh.dy, 0)>>

\* C14, amended: the w-by-h silhouette is blurred on its own first, then it
\* is pasted on the enlarged canvas at (max(dx,0), max(dy,0)), then the
\* image is pasted last at (max(-dx,0), max(-dy,0)); the image is never
\* blurred and the canvas is never blurred as a whole.
C14_BlurSilhouetteThenPaste ==
    ShadowDone =>
        /\ 0 < StepAt(sh.steps, "blur")
        /\ StepAt(sh.steps, "blur") < StepAt(sh.steps, "paste_shadow")
        /\ StepAt(sh.steps, "paste_shadow") < StepAt(sh.steps, "paste_image")
        /\ StepAt(sh.steps, "paste_image") = Len(sh.steps)
        /\ sh.blurOf = <<sh.w, sh.h>>
        /\ sh.shadowAt = <<Max(sh.dx, 0), Max(sh.dy, 0)>>
        /\ sh.subjectAt = <<Max(0 - sh.dx, 0), Max(0 - sh.dy, 0)>>

\* add_shadow has returned for a shadow with a blur and an offset, where
\* the canvas is larger than the silhouette.
C14_Witness ==
    ShadowDone /\ sh.blur > 0 /\ sh.dx > 0 /\ sh.dy > 0 /\ sh.blurOf # sh.out

-----------------------------------------------------------------------------
(* replace_background: main.py 130-161 and ImageProcessor's, utils.py 89-153 *)

White == <<255, 255, 255, 255>>
NoColor == <<>>

\* Strings handed in as a color.
ColorStrings == {"red", "#00ff00", "not-a-color"}

\* ImageColor.getrgb(s) returns (the other strings raise ValueError).
ColorParses(s) == s \in {"red", "#00ff00"}

\* ImageColor.getrgb(s) + (255,)
ColorRGBA(s) ==
    CASE s = "red" -> <<255, 0, 0, 255>>
      [] s = "#00ff00" -> <<0, 255, 0, 255>>

\* The background argument: an image of some size, a string, or something
\* that is neither (None, a number).
BackgroundArgs ==
    [kind : {"image"}, w : 1..MaxBgDim, h : 1..MaxBgDim, text : {""}]
    \cup [kind : {"str"}, w : {0}, h : {0}, text : ColorStrings]
    \cup [kind : {"none", "int"}, w : {0}, h : {0}, text : {""}]

ReplaceCalls ==
    [pc : {"call"}, impl : {"main", "utils"}, W : 1..MaxDim, H : 1..MaxDim,
     bg : BackgroundArgs, mode : {"RGB", "RGBA"}, fgRefined : {0},
     fill : {"none"}, color : {NoColor}, scaled : {<<0, 0>>},
     cover : {<<0, 0, 0, 0>>}, outcome : {"none"}, exc : {""},
     out : {<<0, 0>>}]

CeilDiv(a, b) == (a + b - 1) \div b

\* main.py 143: ImageOps.fit(background, foreground.size): the background,
\* its aspect ratio kept, at the smallest scale at which it spans the
\* target, the overflow cropped away.  The size of the whole background at
\* that scale, rounded up.
MainFitScaled(W, H, bw, bh) ==
    IF bw * H >= W * bh
    THEN <<CeilDiv(bw * H, bh), H>>
    ELSE <<W, CeilDiv(bh * W, bw)>>

\* utils.py 113-121: the size the 'cover' branch resizes the background to.
\* bg_ratio > img_ratio compares bw/bh with W/H; int(new_width / bg_ratio)
\* and int(new_height * bg_ratio) are the floors of W*bh/bw and H*bw/bh
\* (the doubles give exactly these for all sizes below 9).
UtilsCoverScaled(W, H, bw, bh) ==
    IF bw * H > W * bh
    THEN <<W, (W * bh) \div bw>>
    ELSE <<(H * bw) \div bh, H>>

\* utils.py 129-136: the crop box's corner; // rounds down, as \div does.
UtilsCropCorner(W, H, scaled) ==
    <<(scaled[1] - W) \div 2, (scaled[2] - H) \div 2>>

\* Image.crop: the part <<x0, y0, x1, y1>> of the W-by-H result that holds
\* pixels of the scaled image; what lies outside it is transparent.
CropCover(W, H, scaled, corner) ==
    <<Max(0, 0 - corner[1]), Max(0, 0 - corner[2]),
      Min(W, scaled[1] - corner[1]), Min(H, scaled[2] - corner[2])>>

ReplaceRaise(exc) ==
    [rb EXCEPT !.pc = "done", !.outcome = "raised", !.exc = exc]

\* main.py 134-138: RGBA, refine_edges.
MainReplacePrepare ==
    /\ rb.pc = "call"
    /\ rb.impl = "main"
    /\ rb' = [rb EXCEPT !.pc = "prepared", !.mode = "RGBA", !.fgRefined = @ + 1]
    /\ UNCHANGED <<pipeVars, sh, pool, px, cc, sel>>

\* main.py 140-151: the background by its type.
MainReplaceBackdrop ==
    /\ rb.pc = "prepared"
    /\ rb.impl = "main"
    /\ rb' = CASE rb.bg.kind = "image" ->
                    [rb EXCEPT !.pc = "backdrop", !.fill = "image",
                               !.scaled = MainFitScaled(rb.W, rb.H, rb.bg.w, rb.bg.h),
                               !.cover = <<0, 0, rb.W, rb.H>>]
               [] rb.bg.kind = "str" /\ ColorParses(rb.bg.text) ->
                    [rb EXCEPT !.pc = "backdrop", !.fill = "color",
                               !.color = ColorRGBA(rb.bg.text),
                               !.cover = <<0, 0, rb.W, rb.H>>]
               [] rb.bg.kind = "str" /\ ~ColorParses(rb.bg.text) ->
                    \* except ValueError
                    [rb EXCEPT !.pc = "backdrop", !.fill = "color",
                               !.color = White,
                               !.cover = <<0, 0, rb.W, rb.H>>]
               [] OTHER ->
                    [rb EXCEPT !.pc = "backdrop", !.fill = "color",
                               !.color = White,
                               !.cover = <<0, 0, rb.W, rb.H>>]
    /\ UNCHANGED <<pipeVars, sh, pool, px, cc, sel>>

\* main.py 153-161: the alpha feathered, alpha_composite, return.
MainReplaceComposite ==
    /\ rb.pc = "backdrop"
    /\ rb.impl = "main"
    /\ rb' = [rb EXCEPT !.pc = "done", !.outcome = "returned",
                        !.out = <<rb.W, rb.H>>]
    /\ UNCHANGED <<pipeVars, sh, pool, px, cc, sel>>

\* utils.py 98-101: RGBA.
UtilsReplacePrepare ==
    /\ rb.pc = "call"
    /\ rb.impl = "utils"
    /\ rb' = [rb EXCEPT !.pc = "prepared", !.mode = "RGBA"]
    /\ UNCHANGED <<pipeVars, sh, pool, px, cc, sel>>

\* utils.py 103-142, 151-153: the background by its type.  Image.new with a
\* string that is no color raises ValueError, None has no size, resize to a
\* width or height of 0 raises ValueError; the except clause then calls
\* logging.error, utils.py does not import logging, and a NameError leaves.
UtilsReplaceBackdrop ==
    /\ rb.pc = "prepared"
    /\ rb.impl = "utils"
    /\ rb' = CASE rb.bg.kind = "str" /\ ColorParses(rb.bg.text) ->
                    [rb EXCEPT !.pc = "backdrop", !.fill = "color",
                               !.color = ColorRGBA(rb.bg.text),
                               !.cover = <<0, 0, rb.W, rb.H>>]
               [] rb.bg.kind = "str" /\ ~ColorParses(rb.bg.text) ->
                    ReplaceRaise("NameError")
               [] rb.bg.kind \in {"none", "int"} ->
                    \* bg_image.size: AttributeError
                    ReplaceRaise("NameError")
               [] rb.bg.kind = "image" ->
                    LET scaled == UtilsCoverScaled(rb.W, rb.H, rb.bg.w, rb.bg.h)
                        corner == UtilsCropCorner(rb.W, rb.H, scaled)
                    IN  IF scaled[1] < 1 \/ scaled[2] < 1
                        THEN ReplaceRaise("NameError")
                        ELSE [rb EXCEPT !.pc = "backdrop", !.fill = "image",
                                        !.scaled = scaled,
                                        !.cover = CropCover(rb.W, rb.H, scaled, corner)]
    /\ UNCHANGED <<pipeVars, sh, pool, px, cc, sel>>

\* utils.py 144-149: background pasted, image pasted over it, return.
UtilsReplaceComposite ==
    /\ rb.pc = "backdrop"
    /\ rb.impl = "utils"
    /\ rb' = [rb EXCEPT !.pc = "done", !.outcome = "returned",
                        !.out = <<rb.W, rb.H>>]
    /\ UNCHANGED <<pipeVars, sh, pool, px, cc, sel>>

InitReplace ==
    /\ PipeIdle
    /\ futuresTimeoutIsBuiltin = TRUE
    /\ ShadowIdle
    /\ rb \in ReplaceCalls
    /\ PoolIdle
    /\ PixelIdle
    /\ TwoIdle
    /\ SeleniumIdle

NextReplace ==
    \/ MainReplacePrepare
    \/ MainReplaceBackdrop
    \/ MainReplaceComposite
    \/ UtilsReplacePrepare
    \/ UtilsReplaceBackdrop
    \/ UtilsReplaceComposite

SpecReplace == InitReplace /\ [][NextReplace]_vars

(* Claims about replace_background, checked under SpecReplace *)

ReplaceDone == rb.pc = "done"

\* C7: replace_background given a string that is no color does not raise
\* and returns the foreground over an opaque white canvas of its size.
C7_InvalidColorFallsBackToWhite ==
    (ReplaceDone /\ rb.bg.kind = "str" /\ ~ColorParses(rb.bg.text)) =>
        /\ rb.outcome = "returned"
        /\ rb.fill = "color"
        /\ rb.color = <<255, 255, 255, 255>>
        /\ rb.cover = <<0, 0, rb.W, rb.H>>
        /\ rb.out = <<rb.W, rb.H>>

\* C8: replace_background given a background image scales it, aspect ratio
\* kept, to at least W wide and H high and crops it to (W, H): background
\* pixels cover the whole target and the result is RGBA of size (W, H).
C8_CoverFit ==
    (ReplaceDone /\ rb.bg.kind = "image") =>
        /\ rb.outcome = "returned"
        /\ rb.scaled[1] >= rb.W
        /\ rb.scaled[2] >= rb.H
        /\ rb.cover = <<0, 0, rb.W, rb.H>>
        /\ rb.mode = "RGBA"
        /\ rb.out = <<rb.W, rb.H>>

\* C12: replace_background given a background that is neither a string nor
\* an image does not fail and returns the foreground over an opaque white
\* canvas of its size.
C12_UnrecognizedTypeFallsBackToWhite ==
    (ReplaceDone /\ rb.bg.kind \in {"none", "int"}) =>
        /\ rb.outcome = "returned"
        /\ rb.fill = "color"
        /\ rb.color = <<255, 255, 255, 255>>
        /\ rb.cover = <<0, 0, rb.W, rb.H>>
        /\ rb.out = <<rb.W, rb.H>>

-----------------------------------------------------------------------------
(* Concurrent requests: the Flask route of main.py runs the pipeline in the *)
(* request's own thread, handle_request submits it to the pool             *)

RequestIds == 1..NumRequests

\* st[i]: "none" (not arrived), "new", "queued" (job in the pool's queue),
\* "running" (the pipeline's transforms execute), "done".
PoolStart ==
    [pc |-> "serving",
     route |-> [i \in RequestIds |-> "none"],
     st |-> [i \in RequestIds |-> "none"],
     queue |-> <<>>]

\* The requests whose transforms execute now.
Transforming == {i \in RequestIds : pool.st[i] = "running"}

\* The pool's workers that run a job.
BusyWorkers ==
    {i \in RequestIds : pool.route[i] = "handler" /\ pool.st[i] = "running"}

\* A request arrives at one of the two routes; the server gives each
\* request a thread of its own (main.py 204: app.run).
Arrive(i, route) ==
    /\ pool.st[i] = "none"
    /\ pool' = [pool EXCEPT !.route[i] = route, !.st[i] = "new"]
    /\ UNCHANGED <<pipeVars, sh, rb, px, cc, sel>>

\* main.py 178-179: the route calls remove_background_enhanced itself.
ApiTransformStart(i) ==
    /\ pool.route[i] = "api"
    /\ pool.st[i] = "new"
    /\ pool' = [pool EXCEPT !.st[i] = "running"]
    /\ UNCHANGED <<pipeVars, sh, rb, px, cc, sel>>

\* main.py 197-202.
ApiTransformEnd(i) ==
    /\ pool.route[i] = "api"
    /\ pool.st[i] = "running"
    /\ pool' = [pool EXCEPT !.st[i] = "done"]
    /\ UNCHANGED <<pipeVars, sh, rb, px, cc, sel>>

\* handlers.py 41: executor.submit puts the job at the end of the queue.
HandlerSubmit(i) ==
    /\ pool.route[i] = "handler"
    /\ pool.st[i] = "new"
    /\ pool' = [pool EXCEPT !.st[i] = "queued", !.queue = Append(@, i)]
    /\ UNCHANGED <<pipeVars, sh, rb, px, cc, sel>>

\* handlers.py 15: one of the max_workers threads, idle, takes the job at
\* the head of the queue.
WorkerTakesJob ==
    /\ pool.pc = "serving"
    /\ pool.queue # <<>>
    /\ Cardinality(BusyWorkers) < MaxWorkers
    /\ pool' = [pool EXCEPT !.st[Head(pool.queue)] = "running",
                            !.queue = Tail(@)]
    /\ UNCHANGED <<pipeVars, sh, rb, px, cc, sel>>

\* handlers.py 66-82: the job ends and its worker is idle again.
WorkerEndsJob(i) ==
    /\ pool.route[i] = "handler"
    /\ pool.st[i] = "running"
    /\ pool' = [pool EXCEPT !.st[i] = "done"]
    /\ UNCHANGED <<pipeVars, sh, rb, px, cc, sel>>

InitPool ==
    /\ PipeIdle
    /\ futuresTimeoutIsBuiltin = TRUE
    /\ ShadowIdle
    /\ ReplaceIdle
    /\ pool = PoolStart
    /\ PixelIdle
    /\ TwoIdle
    /\ SeleniumIdle

NextPool ==
    \/ \E i \in RequestIds, route \in Routes : Arrive(i, route)
    \/ \E i \in RequestIds : ApiTransformStart(i)
    \/ \E i \in RequestIds : ApiTransformEnd(i)
    \/ \E i \in RequestIds : HandlerSubmit(i)
    \/ WorkerTakesJob
    \/ \E i \in RequestIds : WorkerEndsJob(i)

SpecPool == InitPool /\ [][NextPool]_vars

(* Claims about concurrent requests, checked under SpecPool *)

\* C16: however many requests arrive together, at most 4 pipeline
\* transforms execute at the same time.
C16_AtMostFourTransforms == Cardinality(Transforming) <= 4

(***************************************************************************)
(* refine_edges and the compositing of replace_background, followed for    *)
(* one pixel of the image (SpecPixel).                                     *)
(*                                                                         *)
(* The pixel carries its colour and its alpha; the alphas of the pixels    *)
(* within reach of a blur kernel are known by their range lo..hi.  A       *)
(* Gaussian blur writes a weighted mean of those alphas, so its result at  *)
(* the pixel is some value of lo..hi, and exactly the pixel's alpha where  *)
(* the neighbourhood is uniform.                                           *)
(***************************************************************************)

\* Which definition the name refine_edges is bound to once main.py has been
\* loaded: the def statement at line 78 rebinds the name of the one at line 8.
RefineEdgesEarlier == "earlier"
RefineEdgesInEffect == "later"

\* main.py 99-100 (line 78 definition) and 40-41 (line 8 definition).
LowCutoffOf(d) == IF d = "later" THEN LowCutoff ELSE EarlierLowCutoff
HighCutoffOf(d) == IF d = "later" THEN HighCutoff ELSE EarlierHighCutoff

\* The first masked assignment alone: strong alphas are not made opaque.
BinarizeLowOnly(d, v) == IF v < LowCutoffOf(d) THEN 0 ELSE v

\* main.py 99-100: two masked assignments on the uint8 array, in this order.
Binarize(d, v) ==
    LET a1 == IF v < LowCutoffOf(d) THEN 0 ELSE v
    IN  IF a1 > HighCutoffOf(d) THEN ChannelMax ELSE a1

\* ImageFilter.GaussianBlur on the alpha plane (main.py 95, 103, 155): the
\* possible results at a pixel whose neighbourhood has alphas in lo..hi.
BlurOutcomes(lo, hi) == lo .. hi

FgColors == {<<200, 10, 10>>, <<0, 0, 0>>}
BgColors == {<<0, 0, 255, ChannelMax>>, <<ChannelMax, ChannelMax, ChannelMax, ChannelMax>>}

\* main.py 31-32: the earlier definition blurs the RGB planes, which gives the
\* pixel a mean of the colours around it.
RgbSmoothed(d, rgb) == FgColors

\* main.py 87-91 and 106: the RGB planes are sliced off the array and stacked
\* back untouched; under the earlier definition they are blurred (31-32, 47).
RgbPlane(d, rgb) == IF d = "later" THEN {rgb} ELSE RgbSmoothed(d, rgb)

\* float(request.form.get('edge_refinement_intensity', 1.0)), in tenths.
Intensities10 == {5, 10, 20}

\* main.py 179: int(5 * edge_refinement_intensity) for a non-negative
\* intensity given in tenths; int() truncates.
ErodeSizeOf(x10) == (ErodeFactor * x10) \div 10

\* main.py 78-107: the body of refine_edges has no erosion step and never
\* reads alpha_matting_erode_size, whatever value it receives.
ErodeApplied(erodeArg) == <<>>

\* The weights of the swapped operator: the backdrop weighted by alpha.
BlendSwapped(dst, src, a) ==
    (dst * a + src * (ChannelMax - a) + 127) \div ChannelMax

\* One 8-bit channel of src laid over dst with coverage a, rounded.
Blend(dst, src, a) ==
    (src * a + dst * (ChannelMax - a) + 127) \div ChannelMax

\* Image.alpha_composite(background, foreground) (main.py 159) at one pixel,
\* for an opaque background pixel bg = <<r, g, b, 255>>.
AlphaComposite(bg, rgb, a) ==
    IF a = 0 THEN bg
    ELSE <<Blend(bg[1], rgb[1], a), Blend(bg[2], rgb[2], a),
           Blend(bg[3], rgb[3], a), ChannelMax>>

\* result.paste(image, (0, 0), image) (utils.py 147) at one pixel: every band
\* of the image, its alpha too, is laid over the backdrop through the mask a.
PasteMasked(bg, rgb, a) ==
    <<Blend(bg[1], rgb[1], a), Blend(bg[2], rgb[2], a),
      Blend(bg[3], rgb[3], a), Blend(bg[4], a, a)>>

NoPixel == <<>>

\* The largest width and height of the image the pixel belongs to.
MaxSide == 2

PixelCallers == {"route", "main_replace", "utils_replace"}

\* The alphas of a pixel and of its neighbourhood, as they can be in an image.
PixelNeighbourhoods ==
    {n \in [a0 : {0, 128, ChannelMax}, lo : {0, ChannelMax}, hi : {0, ChannelMax}] :
        n.lo <= n.a0 /\ n.a0 <= n.hi}

PixelCalls ==
    {[pc |-> "call", caller |-> c, w |-> w, h |-> h, rgb |-> rgb,
      a0 |-> n.a0, flat |-> (n.lo = n.hi), lo |-> n.lo, hi |-> n.hi,
      a |-> n.a0, prev |-> 0, rgbNow |-> rgb, bg |-> bg, x10 |-> x10,
      erodeArg |-> <<>>, erodeUsed |-> <<>>,
      size |-> <<w, h>>, channels |-> 4, out |-> NoPixel] :
        c \in PixelCallers, w \in 1..MaxSide, h \in 1..MaxSide,
        rgb \in FgColors, n \in PixelNeighbourhoods, bg \in BgColors,
        x10 \in Intensities10}

\* A one-pixel image has a uniform neighbourhood; only the route reads the
\* intensity and only replace_background has a backdrop.
PixelStarts ==
    {c \in PixelCalls :
        /\ (c.w * c.h = 1 => c.flat)
        /\ (c.caller # "route" => c.x10 = 10)
        /\ (c.caller = "route" => c.bg = <<0, 0, 255, ChannelMax>>)}

\* main.py 179 (the route, alpha_matting_erode_size=int(5 * intensity)) or
\* main.py 138 (replace_background, the default size), then main.py 83-91:
\* the array is split into its RGB planes and its alpha plane.
RefineSplit ==
    /\ px.pc = "call"
    /\ px.caller \in {"route", "main_replace"}
    /\ \E c \in RgbPlane(RefineEdgesInEffect, px.rgb) :
         px' = [px EXCEPT !.pc = "split",
                          !.erodeArg = IF px.caller = "route"
                                       THEN <<ErodeSizeOf(px.x10)>>
                                       ELSE <<DefaultErodeSize>>,
                          !.rgbNow = c]
    /\ UNCHANGED <<pipeVars, sh, rb, pool, cc, sel>>

\* main.py 94-96: the first blur of the alpha plane.
RefineBlurAlpha ==
    /\ px.pc = "split"
    /\ \E v \in BlurOutcomes(px.lo, px.hi) :
         px' = [px EXCEPT !.pc = "blurred", !.a = v]
    /\ UNCHANGED <<pipeVars, sh, rb, pool, cc, sel>>

\* main.py 99-100: the tails are binarized, at this pixel and around it.
RefineThreshold ==
    /\ px.pc = "blurred"
    /\ px' = [px EXCEPT !.pc = "thresholded",
                        !.prev = px.a,
                        !.a = Binarize(RefineEdgesInEffect, px.a),
                        !.lo = Binarize(RefineEdgesInEffect, px.lo),
                        !.hi = Binarize(RefineEdgesInEffect, px.hi)]
    /\ UNCHANGED <<pipeVars, sh, rb, pool, cc, sel>>

\* main.py 103: the second blur of the alpha plane.
RefineFeather ==
    /\ px.pc = "thresholded"
    /\ \E v \in BlurOutcomes(px.lo, px.hi) :
         px' = [px EXCEPT !.pc = "feathered", !.prev = 0, !.a = v]
    /\ UNCHANGED <<pipeVars, sh, rb, pool, cc, sel>>

\* main.py 106-107: the RGB planes and the new alpha plane are stacked into
\* an h-by-w-by-4 array and returned as an image.
RefineRecombine ==
    /\ px.pc = "feathered"
    /\ px' = [px EXCEPT !.pc = "refined",
                        !.erodeUsed = ErodeApplied(px.erodeArg),
                        !.size = <<px.w, px.h>>,
                        !.channels = 3 + 1]
    /\ UNCHANGED <<pipeVars, sh, rb, pool, cc, sel>>

\* main.py 154-156: replace_background blurs the refined alpha once more.
MainReplaceFeather ==
    /\ px.pc = "refined"
    /\ px.caller = "main_replace"
    /\ \E v \in BlurOutcomes(px.lo, px.hi) :
         px' = [px EXCEPT !.pc = "edge_feathered", !.a = v]
    /\ UNCHANGED <<pipeVars, sh, rb, pool, cc, sel>>

\* main.py 159-161: Image.alpha_composite(background, foreground).
MainReplaceAlphaComposite ==
    /\ px.pc = "edge_feathered"
    /\ px' = [px EXCEPT !.pc = "done",
                        !.out = AlphaComposite(px.bg, px.rgbNow, px.a)]
    /\ UNCHANGED <<pipeVars, sh, rb, pool, cc, sel>>

\* utils.py 145-149: the backdrop is pasted on an empty canvas and the image
\* is pasted over it through its own alpha.
UtilsReplacePaste ==
    /\ px.pc = "call"
    /\ px.caller = "utils_replace"
    /\ px' = [px EXCEPT !.pc = "done",
                        !.out = PasteMasked(px.bg, px.rgbNow, px.a)]
    /\ UNCHANGED <<pipeVars, sh, rb, pool, cc, sel>>

InitPixel ==
    /\ PipeIdle
    /\ futuresTimeoutIsBuiltin = TRUE
    /\ ShadowIdle
    /\ ReplaceIdle
    /\ PoolIdle
    /\ px \in PixelStarts
    /\ TwoIdle
    /\ SeleniumIdle

NextPixel ==
    \/ RefineSplit
    \/ RefineBlurAlpha
    \/ RefineThreshold
    \/ RefineFeather
    \/ RefineRecombine
    \/ MainReplaceFeather
    \/ MainReplaceAlphaComposite
    \/ UtilsReplacePaste

SpecPixel == InitPixel /\ [][NextPixel]_vars

(* Claims about refine_edges and compositing, checked under SpecPixel *)

\* C17: the tail binarization of the refine_edges in effect sends a blurred
\* alpha v below 20 to 0, v above 240 to 255, leaves 20..240 unchanged, and
\* is monotone non-decreasing over 0..255.
C17_TailBinarization ==
    px.pc = "thresholded" =>
         /\ px.prev < 20 => px.a = 0
         /\ px.prev > 240 => px.a = 255
         /\ (20 <= px.prev /\ px.prev <= 240) => px.a = px.prev
         /\ \A u \in 0..255 :
              /\ u <= px.prev => Binarize(RefineEdgesInEffect, u) <= px.a
              /\ u >= px.prev => Binarize(RefineEdgesInEffect, u) >= px.a

C17_Witness ==
    /\ px.pc = "thresholded"
    /\ px.prev = 25
    /\ px.a = 25

\* C18: for intensity x the refine_edges run of the request operates with
\* erosion size int(5 * x).
C18_ErosionScalesWithIntensity ==
    (px.pc = "refined" /\ px.caller = "route") =>
        px.erodeUsed = <<(5 * px.x10) \div 10>>

\* C19: the refine_edges in effect returns an image of the same width,
\* height and 4 channels whose RGB equals the input's at the pixel.
C19_RefinePreservesRGB ==
    px.pc = "refined" =>
        /\ px.size = <<px.w, px.h>>
        /\ px.channels = 4
        /\ px.rgbNow = px.rgb

C19_Witness ==
    /\ px.pc = "refined"
    /\ px.a # px.a0
    /\ px.rgbNow = px.rgb

\* C20: replace_background over an opaque same-sized background gives, where
\* the foreground passed in has alpha 255, the foreground's RGB with alpha
\* 255, and where it has alpha 0, the background pixel.
C20_AlphaOverByPassedInAlpha ==
    px.pc = "done" =>
        /\ px.a0 = 255 => px.out = <<px.rgb[1], px.rgb[2], px.rgb[3], 255>>
        /\ px.a0 = 0 => px.out = px.bg

\* C20 (amended): the same, by the alpha that is composited, and hence by the
\* alpha passed in wherever the pixel's neighbourhood has that uniform alpha.
C20_AlphaOverByCompositedAlpha ==
    px.pc = "done" =>
        /\ px.a = 255 => px.out = <<px.rgb[1], px.rgb[2], px.rgb[3], 255>>
        /\ px.a = 0 => px.out = px.bg
        /\ px.caller = "utils_replace" => px.a = px.a0
        /\ px.flat => px.a = px.a0

C20_Witness ==
    /\ px.pc = "done"
    /\ px.caller = "main_replace"
    /\ ~px.flat
    /\ px.a0 = 255
    /\ px.a = 255
    /\ px.out = <<px.rgb[1], px.rgb[2], px.rgb[3], 255>>

-----------------------------------------------------------------------------
(***************************************************************************)
(* Two concurrent calls of BackgroundRemovalHandler.handle_request         *)
(* (SpecTwo).  Each call runs in its own request thread; what the calls    *)
(* have in common is the upload folder and the executor of handlers.py 15. *)
(***************************************************************************)

TwoRequests == {1, 2}

\* The uploads: both files pass the two early returns and carry the same
\* file name; they differ in whether PIL decodes them and rembg succeeds.
TwoInputs == [decodable : BOOLEAN, segOK : BOOLEAN]

NoDir == 0

\* An upload folder in which every call is given the same directory.
MkdtempShared(used) == 1

\* handlers.py 36: tempfile.mkdtemp creates a directory under a name that
\* does not exist; its random 8-character suffix is taken never to repeat.
Mkdtemp(used) == Cardinality(used) + 1

\* Some other call works under the directory d.
SharedWith(i, d) == \E j \in TwoRequests \ {i} : cc.dir[j] = d

\* Jobs that hold a worker of the pool.
TwoBusy == {i \in TwoRequests : cc.job[i] \in {"opened", "removed"}}

\* handlers.py 57-63: the finally clause of call i, which leaves with resp.
\* os.remove raises when the path is unbound or names no file, and os.rmdir
\* is then not reached.
TwoReturn(i, resp) ==
    LET d == cc.dir[i]
        removes == d # NoDir /\ d \in cc.files
    IN  cc' = [cc EXCEPT !.pc[i] = "done",
                         !.resp[i] = resp,
                         !.files = IF removes THEN @ \ {d} ELSE @,
                         !.dirs = IF removes THEN @ \ {d} ELSE @,
                         !.foreign = @ \/ (removes /\ SharedWith(i, d))]

\* handlers.py 34-41: mkdtemp, save, submit.
TwoSave(i, o) ==
    /\ cc.pc[i] = "save"
    /\ LET d == Mkdtemp(cc.used)
       IN  CASE o = "mkdtemp_fails" ->
                  cc' = [cc EXCEPT !.pc[i] = "done", !.saved[i] = o,
                                   !.resp[i] = HandlerErrorResponse("OSError")]
             [] o = "open_fails" ->
                  \* the directory is there, the file is not: os.remove raises
                  cc' = [cc EXCEPT !.pc[i] = "done", !.saved[i] = o,
                                   !.dir[i] = d,
                                   !.used = @ \cup {d},
                                   !.dirs = @ \cup {d},
                                   !.resp[i] = HandlerErrorResponse("OSError")]
             [] o = "write_fails" ->
                  \* file and directory are created and removed again
                  cc' = [cc EXCEPT !.pc[i] = "done", !.saved[i] = o,
                                   !.dir[i] = d,
                                   !.used = @ \cup {d},
                                   !.foreign = @ \/ SharedWith(i, d),
                                   !.files = @ \ {d},
                                   !.dirs = @ \ {d},
                                   !.resp[i] = HandlerErrorResponse("OSError")]
             [] o = "saved" ->
                  cc' = [cc EXCEPT !.pc[i] = "wait", !.saved[i] = o,
                                   !.dir[i] = d,
                                   !.used = @ \cup {d},
                                   !.dirs = @ \cup {d},
                                   !.files = @ \cup {d},
                                   !.job[i] = "queued"]
    /\ UNCHANGED <<pipeVars, sh, rb, pool, px, sel>>

\* handlers.py 66-74: a free worker takes the job of call i; Image.open and
\* convert read the file under the path the job was given.
TwoTaskOpen(i) ==
    /\ cc.job[i] = "queued"
    /\ Cardinality(TwoBusy) < MaxWorkers
    /\ LET d == cc.dir[i]
       IN  IF d \notin cc.files
           THEN cc' = [cc EXCEPT !.job[i] = "failed",
                                 !.exc[i] = "FileNotFoundError"]
           ELSE cc' = [cc EXCEPT !.job[i] = IF cc.input[i].decodable
                                            THEN "opened" ELSE "failed",
                                 !.exc[i] = IF cc.input[i].decodable
                                            THEN @ ELSE "UnidentifiedImageError",
                                 !.foreign = @ \/ SharedWith(i, d)]
    /\ UNCHANGED <<pipeVars, sh, rb, pool, px, sel>>

\* handlers.py 77 and utils.py 9-27; a failure of rembg leaves as NameError.
TwoTaskRemoveBackground(i) ==
    /\ cc.job[i] = "opened"
    /\ cc' = [cc EXCEPT !.job[i] = IF cc.input[i].segOK THEN "removed" ELSE "failed",
                        !.exc[i] = IF cc.input[i].segOK THEN @ ELSE "NameError"]
    /\ UNCHANGED <<pipeVars, sh, rb, pool, px, sel>>

\* handlers.py 80-82.
TwoTaskEncode(i) ==
    /\ cc.job[i] = "removed"
    /\ cc' = [cc EXCEPT !.job[i] = "finished"]
    /\ UNCHANGED <<pipeVars, sh, rb, pool, px, sel>>

\* handlers.py 42-49.
TwoResult(i) ==
    /\ cc.pc[i] = "wait"
    /\ cc.job[i] = "finished"
    /\ TwoReturn(i, ImageResponse)
    /\ UNCHANGED <<pipeVars, sh, rb, pool, px, sel>>

\* handlers.py 42, 54-56.
TwoTaskError(i) ==
    /\ cc.pc[i] = "wait"
    /\ cc.job[i] = "failed"
    /\ TwoReturn(i, HandlerErrorResponse(cc.exc[i]))
    /\ UNCHANGED <<pipeVars, sh, rb, pool, px, sel>>

\* handlers.py 42, 51-56: 30 s pass before the job of call i has finished.
TwoTimeout(i) ==
    /\ cc.pc[i] = "wait"
    /\ cc.job[i] \in {"queued", "opened", "removed"}
    /\ cc' = [cc EXCEPT !.pc[i] = "done",
                        !.timedOut[i] = TRUE,
                        !.resp[i] = HandlerErrorResponse(FuturesTimeout),
                        !.files = IF cc.dir[i] \in @ THEN @ \ {cc.dir[i]} ELSE @,
                        !.dirs = IF cc.dir[i] \in cc.files THEN @ \ {cc.dir[i]} ELSE @,
                        !.foreign = @ \/ (cc.dir[i] \in cc.files /\ SharedWith(i, cc.dir[i]))]
    /\ UNCHANGED <<pipeVars, sh, rb, pool, px, sel>>

InitTwo ==
    /\ PipeIdle
    /\ futuresTimeoutIsBuiltin = TRUE
    /\ ShadowIdle
    /\ ReplaceIdle
    /\ PoolIdle
    /\ PixelIdle
    /\ SeleniumIdle
    /\ \E inputs \in [TwoRequests -> TwoInputs] :
         cc = [pc |-> [i \in TwoRequests |-> "save"],
               input |-> inputs,
               saved |-> [i \in TwoRequests |-> ""],
               dir |-> [i \in TwoRequests |-> NoDir],
               used |-> {}, dirs |-> {}, files |-> {},
               job |-> [i \in TwoRequests |-> "none"],
               exc |-> [i \in TwoRequests |-> ""],
               timedOut |-> [i \in TwoRequests |-> FALSE],
               resp |-> [i \in TwoRequests |-> NoResponse],
               foreign |-> FALSE]

NextTwo ==
    \/ \E i \in TwoRequests, o \in SaveOutcomes : TwoSave(i, o)
    \/ \E i \in TwoRequests : TwoTaskOpen(i)
    \/ \E i \in TwoRequests : TwoTaskRemoveBackground(i)
    \/ \E i \in TwoRequests : TwoTaskEncode(i)
    \/ \E i \in TwoRequests : TwoResult(i)
    \/ \E i \in TwoRequests : TwoTaskError(i)
    \/ \E i \in TwoRequests : TwoTimeout(i)

SpecTwo == InitTwo /\ [][NextTwo]_vars

(* Claims about two concurrent calls, checked under SpecTwo *)

\* The response of a call that runs with no other call beside it, for the
\* same upload and the same outcome of its own save and of its own wait.
AloneResponse(i) ==
    IF cc.saved[i] # "saved" THEN HandlerErrorResponse("OSError")
    ELSE IF cc.timedOut[i] THEN HandlerErrorResponse(FuturesTimeout)
    ELSE IF ~cc.input[i].decodable THEN HandlerErrorResponse("UnidentifiedImageError")
    ELSE IF ~cc.input[i].segOK THEN HandlerErrorResponse("NameError")
    ELSE ImageResponse

-----------------------------------------------------------------------------
(***************************************************************************)
(* SeleniumImageGenerator (selenium_utils.py) and the threads that use it  *)
(* (SpecSelenium, SpecGenerate).  Each thread constructs the generator     *)
(* (handlers.py 93-100, 114-115) and calls generate_image on it (118).     *)
(* One step is one read or one write of a shared attribute, or one call    *)
(* into Selenium; threads may be switched between any two steps.           *)
(***************************************************************************)

SelThreads == {1, 2}

\* selenium_utils.py 257: the default max_retries of generate_image.
DefaultMaxRetries == 3

\* The largest max_retries a call is given.
MaxRetries == 3

None == 0

\* A cleanup that never finds a driver to quit.
CleanupNever(driver) == FALSE

\* selenium_utils.py 94: `if self.driver:` in cleanup.
CleanupNeeded(driver) == driver # None

\* The lock objects _driver_lock can be bound to: one per run of __init__.
LockIds == 1 .. Cardinality(SelThreads)

SelPcs ==
    {"off", "new", "new_lock", "new_locked", "init", "init_driver", "init_wait",
     "init_lock", "init_flag", "loop", "setup", "setup_lock", "setup_locked",
     "setup_create", "setup_wait", "get", "until", "except", "cleanup",
     "cleanup_lock", "cleanup_quit", "cleanup_driver", "cleanup_wait", "done"}

\* Thread t is inside an attempt, past its setup_driver call.
InAttempt(t) == sel.pc[t] \in {"get", "until"}

SelGoto(t, to) == [sel EXCEPT !.pc[t] = to]

\* ---- __new__ (selenium_utils.py 24-29) ----

\* line 25: the first `if cls._instance is None`.
NewCheck(t) ==
    /\ sel.pc[t] = "new"
    /\ sel' = SelGoto(t, IF sel.instance THEN "init" ELSE "new_lock")
    /\ UNCHANGED <<pipeVars, sh, rb, pool, px, cc>>

\* line 26: `with cls._lock`.
NewLock(t) ==
    /\ sel.pc[t] = "new_lock"
    /\ sel.clsLock = None
    /\ sel' = [sel EXCEPT !.pc[t] = "new_locked", !.clsLock = t]
    /\ UNCHANGED <<pipeVars, sh, rb, pool, px, cc>>

\* lines 27-29: the second check, the creation, the release.
NewCreate(t) ==
    /\ sel.pc[t] = "new_locked"
    /\ sel' = [sel EXCEPT !.pc[t] = "init",
                          !.clsLock = None,
                          !.instance = TRUE,
                          !.instances = IF sel.instance THEN @ ELSE @ + 1]
    /\ UNCHANGED <<pipeVars, sh, rb, pool, px, cc>>

\* ---- __init__ (selenium_utils.py 31-37) ----

\* line 32: `if not hasattr(self, '_initialized')`.
InitCheck(t) ==
    /\ sel.pc[t] = "init"
    /\ sel' = SelGoto(t, IF sel.initialized THEN "loop" ELSE "init_driver")
    /\ UNCHANGED <<pipeVars, sh, rb, pool, px, cc>>

\* line 33: self.driver = None.
InitDriver(t) ==
    /\ sel.pc[t] = "init_driver"
    /\ sel' = [sel EXCEPT !.pc[t] = "init_wait",
                          !.driver = None,
                          !.lateInit = @ \/ sel.initialized]
    /\ UNCHANGED <<pipeVars, sh, rb, pool, px, cc>>

\* lines 34-35: self.wait = None; self.long_wait = None.
InitWait(t) ==
    /\ sel.pc[t] = "init_wait"
    /\ sel' = [sel EXCEPT !.pc[t] = "init_lock",
                          !.wait = None,
                          !.lateInit = @ \/ sel.initialized]
    /\ UNCHANGED <<pipeVars, sh, rb, pool, px, cc>>

\* line 36: self._driver_lock = threading.Lock(), a new lock object.
InitLock(t) ==
    /\ sel.pc[t] = "init_lock"
    /\ sel' = [sel EXCEPT !.pc[t] = "init_flag",
                          !.driverLock = @ + 1,
                          !.lateInit = @ \/ sel.initialized]
    /\ UNCHANGED <<pipeVars, sh, rb, pool, px, cc>>

\* line 37: self._initialized = True.
InitFlag(t) ==
    /\ sel.pc[t] = "init_flag"
    /\ sel' = [sel EXCEPT !.pc[t] = "loop",
                          !.initialized = TRUE,
                          !.inits = @ + 1]
    /\ UNCHANGED <<pipeVars, sh, rb, pool, px, cc>>

\* ---- generate_image (selenium_utils.py 257-315) ----

\* line 262: `while retry_count < max_retries`; past the loop the function
\* ends and returns None.
GenerateLoop(t) ==
    /\ sel.pc[t] = "loop"
    /\ IF sel.retry[t] < sel.maxRetries[t]
       THEN sel' = [sel EXCEPT !.pc[t] = "setup",
                               !.attempts[t] = @ + 1,
                               !.born[t] = FALSE]
       ELSE sel' = [sel EXCEPT !.pc[t] = "done", !.ret[t] = "None"]
    /\ UNCHANGED <<pipeVars, sh, rb, pool, px, cc>>

\* ---- setup_driver (selenium_utils.py 39-90) ----

\* lines 41-42: `if self.driver: return`.
SetupCheck(t) ==
    /\ sel.pc[t] = "setup"
    /\ sel' = SelGoto(t, IF sel.driver # None THEN "get" ELSE "setup_lock")
    /\ UNCHANGED <<pipeVars, sh, rb, pool, px, cc>>

\* line 44: `with self._driver_lock`: the lock object the attribute names
\* now is acquired once it is free.
SetupLock(t) ==
    /\ sel.pc[t] = "setup_lock"
    /\ sel.holder[sel.driverLock] = None
    /\ sel' = [sel EXCEPT !.pc[t] = "setup_locked",
                          !.myLock[t] = sel.driverLock,
                          !.holder[sel.driverLock] = t]
    /\ UNCHANGED <<pipeVars, sh, rb, pool, px, cc>>

\* lines 45-46: the second `if self.driver: return`, which releases.
SetupRecheck(t) ==
    /\ sel.pc[t] = "setup_locked"
    /\ IF sel.driver # None
       THEN sel' = [sel EXCEPT !.pc[t] = "get",
                               !.holder[sel.myLock[t]] = None]
       ELSE sel' = SelGoto(t, "setup_create")
    /\ UNCHANGED <<pipeVars, sh, rb, pool, px, cc>>

\* lines 48-84, 88-90: chromedriver_autoinstaller.install and
\* webdriver.Chrome; either the driver is started and bound to self.driver
\* or the exception leaves setup_driver, which releases the lock.
SetupCreate(t, ok) ==
    /\ sel.pc[t] = "setup_create"
    /\ IF ok
       THEN sel' = [sel EXCEPT !.pc[t] = "setup_wait",
                               !.made = @ + 1,
                               !.driver = sel.made + 1,
                               !.live = @ \cup {sel.made + 1},
                               !.born[t] = TRUE]
       ELSE sel' = [sel EXCEPT !.pc[t] = "except",
                               !.holder[sel.myLock[t]] = None]
    /\ UNCHANGED <<pipeVars, sh, rb, pool, px, cc>>

\* lines 85-86: self.wait and self.long_wait are bound to waits on
\* self.driver; the lock is released.
SetupWait(t) ==
    /\ sel.pc[t] = "setup_wait"
    /\ sel' = [sel EXCEPT !.pc[t] = "get",
                          !.wait = sel.driver,
                          !.holder[sel.myLock[t]] = None]
    /\ UNCHANGED <<pipeVars, sh, rb, pool, px, cc>>

\* ---- the attempt (selenium_utils.py 266-295) ----

\* line 267: self.driver.get(...).  On None it raises AttributeError, on a
\* driver that was quit a WebDriverException; the page may also fail to load.
AttemptGet(t, ok) ==
    /\ sel.pc[t] = "get"
    /\ IF sel.driver = None
       THEN sel' = [sel EXCEPT !.pc[t] = "except", !.nullDeref[t] = TRUE]
       ELSE IF sel.driver \notin sel.live \/ ~ok
       THEN sel' = SelGoto(t, "except")
       ELSE sel' = SelGoto(t, "until")
    /\ UNCHANGED <<pipeVars, sh, rb, pool, px, cc>>

\* lines 268-295: self.wait.until(...) and the work on the page through
\* self.driver, up to `return img_url` or the raise of a failed attempt.
AttemptUntil(t, ok) ==
    /\ sel.pc[t] = "until"
    /\ IF sel.wait = None \/ sel.driver = None
       THEN sel' = [sel EXCEPT !.pc[t] = "except", !.nullDeref[t] = TRUE]
       ELSE IF sel.wait \notin sel.live \/ sel.driver \notin sel.live \/ ~ok
       THEN sel' = SelGoto(t, "except")
       ELSE sel' = [sel EXCEPT !.pc[t] = "done", !.ret[t] = "url"]
    /\ UNCHANGED <<pipeVars, sh, rb, pool, px, cc>>

\* lines 297-308: retry_count += 1; return None at max_retries; else sleep.
GenerateExcept(t) ==
    /\ sel.pc[t] = "except"
    /\ IF sel.retry[t] + 1 >= sel.maxRetries[t]
       THEN sel' = [sel EXCEPT !.pc[t] = "done",
                               !.retry[t] = @ + 1,
                               !.ret[t] = "None"]
       ELSE sel' = [sel EXCEPT !.pc[t] = "cleanup", !.retry[t] = @ + 1]
    /\ UNCHANGED <<pipeVars, sh, rb, pool, px, cc>>

\* ---- cleanup (selenium_utils.py 92-103), called at line 311 ----

\* line 94: `if self.driver:`.
CleanupCheck(t) ==
    /\ sel.pc[t] = "cleanup"
    /\ sel' = [sel EXCEPT !.pc[t] = IF CleanupNeeded(sel.driver)
                                    THEN "cleanup_lock" ELSE "loop",
                          !.cleanups[t] = @ + 1]
    /\ UNCHANGED <<pipeVars, sh, rb, pool, px, cc>>

\* line 95: `with self._driver_lock`.
CleanupLock(t) ==
    /\ sel.pc[t] = "cleanup_lock"
    /\ sel.holder[sel.driverLock] = None
    /\ sel' = [sel EXCEPT !.pc[t] = "cleanup_quit",
                          !.myLock[t] = sel.driverLock,
                          !.holder[sel.driverLock] = t]
    /\ UNCHANGED <<pipeVars, sh, rb, pool, px, cc>>

\* lines 96-99: self.driver.quit(); an exception (self.driver is None by
\* now, the driver is gone already) is logged.
CleanupQuit(t) ==
    /\ sel.pc[t] = "cleanup_quit"
    /\ sel' = [sel EXCEPT !.pc[t] = "cleanup_driver",
                          !.live = @ \ {sel.driver},
                          !.quitUnder = @ \cup
                              {u \in SelThreads \ {t} : InAttempt(u) /\ sel.driver # None}]
    /\ UNCHANGED <<pipeVars, sh, rb, pool, px, cc>>

\* line 101: self.driver = None.
CleanupDriver(t) ==
    /\ sel.pc[t] = "cleanup_driver"
    /\ sel' = [sel EXCEPT !.pc[t] = "cleanup_wait", !.driver = None]
    /\ UNCHANGED <<pipeVars, sh, rb, pool, px, cc>>

\* lines 102-103: self.wait = None; self.long_wait = None; the lock is
\* released and generate_image goes round its loop.
CleanupWait(t) ==
    /\ sel.pc[t] = "cleanup_wait"
    /\ sel' = [sel EXCEPT !.pc[t] = "loop",
                          !.wait = None,
                          !.holder[sel.myLock[t]] = None]
    /\ UNCHANGED <<pipeVars, sh, rb, pool, px, cc>>

\* The generator before any thread has constructed it, with the threads of
\* `active` about to do so, each with its max_retries.
SelStart(active, maxr) ==
    [pc |-> [t \in SelThreads |-> IF t \in active THEN "new" ELSE "off"],
     instance |-> FALSE, instances |-> 0, clsLock |-> None,
     initialized |-> FALSE, inits |-> 0, lateInit |-> FALSE,
     driver |-> None, wait |-> None, driverLock |-> 0,
     holder |-> [l \in LockIds |-> None],
     myLock |-> [t \in SelThreads |-> 0],
     made |-> 0, live |-> {},
     retry |-> [t \in SelThreads |-> 0],
     maxRetries |-> maxr,
     attempts |-> [t \in SelThreads |-> 0],
     cleanups |-> [t \in SelThreads |-> 0],
     born |-> [t \in SelThreads |-> FALSE],
     ret |-> [t \in SelThreads |-> "none"],
     nullDeref |-> [t \in SelThreads |-> FALSE],
     quitUnder |-> {}]

\* The generator as an earlier call that returned a URL left it: constructed,
\* its driver running.
SelWarm(active, maxr) ==
    [SelStart(active, maxr) EXCEPT
        !.instance = TRUE, !.instances = 1, !.initialized = TRUE, !.inits = 1,
        !.driverLock = 1, !.made = 1, !.driver = 1, !.wait = 1, !.live = {1}]

SelOthersIdle ==
    /\ PipeIdle
    /\ futuresTimeoutIsBuiltin = TRUE
    /\ ShadowIdle
    /\ ReplaceIdle
    /\ PoolIdle
    /\ PixelIdle
    /\ TwoIdle

InitSelenium ==
    /\ SelOthersIdle
    /\ \E maxr \in [SelThreads -> 1..MaxRetries] :
         sel \in {SelStart(SelThreads, maxr), SelWarm(SelThreads, maxr)}

InitGenerate ==
    /\ SelOthersIdle
    /\ \E m \in (0..MaxRetries) \cup {DefaultMaxRetries} :
         LET maxr == [t \in SelThreads |-> IF t = 1 THEN m ELSE 0]
         IN  sel \in {SelStart({1}, maxr), SelWarm({1}, maxr)}

NextSelenium ==
    \/ \E t \in SelThreads : NewCheck(t)
    \/ \E t \in SelThreads : NewLock(t)
    \/ \E t \in SelThreads : NewCreate(t)
    \/ \E t \in SelThreads : InitCheck(t)
    \/ \E t \in SelThreads : InitDriver(t)
    \/ \E t \in SelThreads : InitWait(t)
    \/ \E t \in SelThreads : InitLock(t)
    \/ \E t \in SelThreads : InitFlag(t)
    \/ \E t \in SelThreads : GenerateLoop(t)
    \/ \E t \in SelThreads : SetupCheck(t)
    \/ \E t \in SelThreads : SetupLock(t)
    \/ \E t \in SelThreads : SetupRecheck(t)
    \/ \E t \in SelThreads, ok \in BOOLEAN : SetupCreate(t, ok)
    \/ \E t \in SelThreads : SetupWait(t)
    \/ \E t \in SelThreads, ok \in BOOLEAN : AttemptGet(t, ok)
    \/ \E t \in SelThreads, ok \in BOOLEAN : AttemptUntil(t, ok)
    \/ \E t \in SelThreads : GenerateExcept(t)
    \/ \E t \in SelThreads : CleanupCheck(t)
    \/ \E t \in SelThreads : CleanupLock(t)
    \/ \E t \in SelThreads : CleanupQuit(t)
    \/ \E t \in SelThreads : CleanupDriver(t)
    \/ \E t \in SelThreads : CleanupWait(t)

SpecSelenium == InitSelenium /\ [][NextSelenium]_vars

\* One thread alone; every step it can take is taken in the end.
SpecGenerate == InitGenerate /\ [][NextSelenium]_vars /\ WF_vars(NextSelenium)

(* Claims about generate_image called by one thread, checked under SpecGenerate *)

Calling == {t \in SelThreads : sel.pc[t] # "off"}

\* What holds of a call of generate_image at every moment.
GenerateSafe ==
    \A t \in Calling :
        /\ sel.attempts[t] <= sel.maxRetries[t]
        /\ sel.ret[t] = "url" =>
             (sel.pc[t] = "done" /\ sel.retry[t] = sel.attempts[t] - 1)
        /\ sel.ret[t] = "None" =>
             (sel.pc[t] = "done" /\ sel.retry[t] = sel.maxRetries[t]
                                 /\ sel.attempts[t] = sel.maxRetries[t])
        /\ sel.pc[t] \in {"setup", "setup_lock", "setup_locked", "setup_create",
                          "setup_wait", "get", "until"} =>
             (sel.cleanups[t] = sel.retry[t] /\ sel.retry[t] = sel.attempts[t] - 1)
        /\ (InAttempt(t) /\ sel.attempts[t] >= 2) => sel.born[t]

C24_NoCleanupUnderAttempt ==
    \A t \in SelThreads : ~sel.nullDeref[t] /\ t \notin sel.quitUnder

\* C25: all constructions yield one instance, and once its first
\* initialisation is complete no construction resets driver or wait to None
\* or replaces _driver_lock.
C25_SingletonInitialisedOnce ==
    /\ sel.instances <= 1
    /\ sel.inits <= 1
    /\ ~sel.lateInit

\* C26: at most one Chrome driver is live, and every driver that was
\* created and not quit is the one self.driver refers to.
C26_OneLiveDriverNoLeak ==
    /\ Cardinality(sel.live) <= 1
    /\ sel.live \subseteq {sel.driver}

=============================================================================
